---- MODULE Spec2Model ----
(***************************************************************************)
(* Model of scripts/convert_images_to_jpeg.py: discovery of image files by *)
(* a pruned directory walk (find_images), per-file conversion to JPEG with *)
(* colour-mode normalisation (convert_to_jpeg), and the orchestration and  *)
(* reporting of main with the __main__ guard's exception handling.         *)
(*                                                                         *)
(* A file or directory name is a sequence of one-character strings, a path *)
(* is a sequence of names from the filesystem root.                        *)
(***************************************************************************)
EXTENDS Integers, Sequences, FiniteSets, TLC

VARIABLES
  argv,          \* sys.argv[1:], a sequence of 0..2 paths
  pilInstalled,  \* whether "from PIL import Image" can succeed
  dirs,          \* filesystem: the set of directory paths
  files,         \* filesystem: file path -> content
  pc,            \* position of the process
  input_dir,     \* main's local
  output_dir,    \* main's local
  stack,         \* os.walk: directories still to be yielded
  visited,       \* os.walk: directories yielded so far, in order
  considered,    \* file paths that reached the suffix test of line 56
  images,        \* find_images' list
  idx,           \* position of main's conversion loop in images (1-based)
  returned,      \* what convert_to_jpeg returned, per attempt
  converted,     \* main's list of (img_path, output_path)
  out,           \* lines printed to standard output
  exitCode,      \* process exit status, -1 while running
  crash,         \* name of the exception that left the program unhandled
  run,           \* number of the current run of the program on this tree
  prevImages,    \* the list find_images returned in the previous run
  nimg,          \* colour normalisation alone: the image opened
  nout           \* colour normalisation alone: the image handed to save

vars == <<argv, pilInstalled, dirs, files, pc, input_dir, output_dir, stack,
          visited, considered, images, idx, returned, converted, out,
          exitCode, crash, run, prevImages, nimg, nout>>

----------------------------------------------------------------------------
(* Bounds of the model *)

\* most files present in the tree at start
MaxFiles == 2
\* most runs of the program on the same tree
MaxRuns == 2
\* most pixels of an image in the colour-normalisation specification
MaxPixels == 2

----------------------------------------------------------------------------
(* Sequences, names and paths *)

Range(s) == {s[i] : i \in 1..Len(s)}

Max(S) == CHOOSE m \in S : \A x \in S : x <= m

Perms(S) ==
  {s \in [1..Cardinality(S) -> S] : \A i, j \in 1..Cardinality(S) : s[i] = s[j] => i = j}

None == <<>>

UpperCase == <<"A","B","C","D","E","F","G","H","I","J","K","L","M",
               "N","O","P","Q","R","S","T","U","V","W","X","Y","Z">>
LowerCase == <<"a","b","c","d","e","f","g","h","i","j","k","l","m",
               "n","o","p","q","r","s","t","u","v","w","x","y","z">>

\* str.lower() on one character
LowerChar(c) ==
  IF \E k \in 1..Len(UpperCase) : UpperCase[k] = c
  THEN LowerCase[CHOOSE k \in 1..Len(UpperCase) : UpperCase[k] = c]
  ELSE c

\* str.lower()
Lower(s) == [i \in 1..Len(s) |-> LowerChar(s[i])]

\* name.rfind('.'), 1-based, 0 when there is no dot
RFindDot(name) ==
  LET D == {i \in 1..Len(name) : name[i] = "."}
  IN IF D = {} THEN 0 ELSE Max(D)

\* PurePath.suffix: the last dot and what follows it, unless the dot is the
\* first or the last character of the name
Suffix(name) ==
  LET i == RFindDot(name)
  IN IF 1 < i /\ i < Len(name) THEN SubSeq(name, i, Len(name)) ELSE <<>>

\* PurePath.stem: the name without its suffix
Stem(name) ==
  LET i == RFindDot(name)
  IN IF 1 < i /\ i < Len(name) THEN SubSeq(name, 1, i - 1) ELSE name

\* PurePath.name
Name(p) == p[Len(p)]

\* PurePath.parent
Parent(p) == SubSeq(p, 1, Len(p) - 1)

\* the / operator of Path with one more component
Join(p, name) == Append(p, name)

IsPrefix(p, q) == Len(p) <= Len(q) /\ SubSeq(q, 1, Len(p)) = p

Ancestors(p) == {SubSeq(p, 1, k) : k \in 1..Len(p)}

----------------------------------------------------------------------------
(* Names used in the modelled trees *)

N_repo == <<"r","e","p","o">>
N_images == <<"i","m","a","g","e","s">>
N_docs == <<"d","o","c","s">>
N_out == <<"o","u","t">>
N_ext == <<"e","x","t">>
N_pkg == <<"p","k","g">>
N_node_modules == <<"n","o","d","e","_","m","o","d","u","l","e","s">>
N_dist == <<"d","i","s","t">>
N_git == <<".","g","i","t">>
N_pycache == <<"_","_","p","y","c","a","c","h","e","_","_">>
N_next == <<".","n","e","x","t">>

E_png == <<".","p","n","g">>
E_jpg == <<".","j","p","g">>
E_jpeg == <<".","j","p","e","g">>
E_gif == <<".","g","i","f">>
E_webp == <<".","w","e","b","p">>
E_bmp == <<".","b","m","p">>
E_tiff == <<".","t","i","f","f">>
E_tif == <<".","t","i","f">>
E_svg == <<".","s","v","g">>

----------------------------------------------------------------------------
(* Images: a mode, the pixels (each a tuple of channel values), and for    *)
(* mode P the palette (RGB entries, indexed from 0) with the alpha of each *)
(* palette entry (the transparency information of the file).               *)

White == 255
DefaultQuality == 85

NoImage == [mode |-> "", px |-> <<>>, pal |-> <<>>, trans |-> <<>>]

Img(mode, px) == [mode |-> mode, px |-> px, pal |-> <<>>, trans |-> <<>>]

\* Image.new('RGB', size, color)
NewImage(mode, size, color) == Img(mode, [i \in 1..size |-> color])

\* the modes Image.convert('RGB') accepts, among those modelled
ConvertibleToRGB == {"RGB", "RGBA", "LA", "L", "P", "CMYK"}

\* the rounded division by 255 of the imaging library
Div255(a) == ((a + 128) + ((a + 128) \div 256)) \div 256

Clip8(v) == IF v < 0 THEN 0 ELSE IF v > 255 THEN 255 ELSE v

\* img.convert('RGBA') of a palette image: the palette entry and its alpha
ConvertRGBA(img) ==
  [mode |-> "RGBA",
   px |-> [i \in 1..Len(img.px) |->
             img.pal[img.px[i][1] + 1] \o <<img.trans[img.px[i][1] + 1]>>],
   pal |-> <<>>, trans |-> <<>>]

\* one pixel of img.convert('RGB')
PixelRGB(img, p) ==
  CASE img.mode = "RGB" -> p
    [] img.mode = "RGBA" -> <<p[1], p[2], p[3]>>
    [] img.mode = "L" -> <<p[1], p[1], p[1]>>
    [] img.mode = "LA" -> <<p[1], p[1], p[1]>>
    [] img.mode = "P" -> img.pal[p[1] + 1]
    [] img.mode = "CMYK" ->
         LET nk == 255 - p[4]
         IN <<Clip8(nk - Div255(p[1] * nk)), Clip8(nk - Div255(p[2] * nk)),
              Clip8(nk - Div255(p[3] * nk))>>

\* img.convert('RGB')
ConvertRGB(img) ==
  Img("RGB", [i \in 1..Len(img.px) |-> PixelRGB(img, img.px[i])])

\* img.split()[-1]: the last band
LastBand(img) == [i \in 1..Len(img.px) |-> img.px[i][Len(img.px[i])]]

\* canvas.paste(im, mask=mask): im is brought to the canvas' mode, then each
\* pixel is blended with the mask (copied when there is no mask)
Paste(canvas, im, mask) ==
  LET src == ConvertRGB(im)
  IN Img(canvas.mode,
         [i \in 1..Len(canvas.px) |->
            IF mask = None THEN src.px[i]
            ELSE [c \in 1..3 |->
                    Div255(canvas.px[i][c] * (255 - mask[i]) + src.px[i][c] * mask[i])]])

\* lines 19-27 raise (the conversion is not supported for the mode)
NormalizeFails(img) ==
  /\ img.mode \notin {"RGBA", "LA", "P"}
  /\ img.mode # "RGB"
  /\ img.mode \notin ConvertibleToRGB

\* lines 19-27 with the paste of line 24 given no mask
MutNormalize_NoMask(img) ==
  IF img.mode \in {"RGBA", "LA", "P"}
  THEN LET rgb_img == NewImage("RGB", Len(img.px), <<White, White, White>>)
           im == IF img.mode = "P" THEN ConvertRGBA(img) ELSE img
       IN Paste(rgb_img, im, None)
  ELSE IF img.mode # "RGB" THEN ConvertRGB(img) ELSE img

\* lines 19-27: the image handed to save
Normalize(img) ==
  IF img.mode \in {"RGBA", "LA", "P"}
  THEN LET rgb_img == NewImage("RGB", Len(img.px), <<White, White, White>>)
           im == IF img.mode = "P" THEN ConvertRGBA(img) ELSE img
       IN Paste(rgb_img, im, IF im.mode \in {"RGBA", "LA"} THEN LastBand(im) ELSE None)
  ELSE IF img.mode # "RGB" THEN ConvertRGB(img) ELSE img

----------------------------------------------------------------------------
(* The trees, arguments and file contents the model draws from *)

\* Path(__file__).parent.parent, the script being <project_root>/scripts/...
project_root == <<N_repo>>

P_docs == <<N_repo, N_docs>>
P_nm == <<N_repo, N_node_modules>>
P_images == <<N_repo, N_images>>

\* directories present in every modelled tree
Skeleton ==
  {project_root, P_docs, Join(P_docs, N_dist), P_nm, Join(P_nm, N_pkg)}

\* content of a file: what it holds, the image Image.open would give, and
\* for a file written by convert_to_jpeg the quality and the path it was
\* converted from
Content(kind, img) == [kind |-> kind, img |-> img, quality |-> 0, src |-> None]

C_rgb == Content("image", Img("RGB", <<<<10, 20, 30>>>>))
C_rgba == Content("image", Img("RGBA", <<<<200, 0, 0, 0>>, <<0, 200, 0, 255>>>>))
C_la == Content("image", Img("LA", <<<<100, 0>>, <<100, 255>>>>))
C_l == Content("image", Img("L", <<<<100>>>>))
C_cmyk == Content("image", Img("CMYK", <<<<0, 255, 0, 0>>>>))
C_i16 == Content("image", Img("I;16B", <<<<1000>>>>))
C_p == Content("image",
               [mode |-> "P", px |-> <<<<0>>, <<1>>>>,
                pal |-> <<<<200, 0, 0>>, <<0, 0, 200>>>>, trans |-> <<0, 255>>])
C_corrupt == Content("corrupt", NoImage)
C_text == Content("text", NoImage)
C_svg == Content("svg", NoImage)
C_jpeg == Content("jpeg", Img("RGB", <<<<1, 2, 3>>>>))

File(dir, name, content) == [path |-> Join(dir, name), content |-> content]

\* the files a modelled tree is drawn from
Universe ==
  << File(project_root, <<"a">> \o E_png, C_rgba),
     File(P_docs, <<"a">> \o E_gif, C_p),
     File(P_docs, <<"B", ".", "P", "N", "G">>, C_corrupt),
     File(project_root, <<"c">> \o E_jpg, C_jpeg),
     File(P_docs, <<"d", ".", "J", "P", "E", "G">>, C_jpeg),
     File(Join(P_nm, N_pkg), <<"e">> \o E_png, C_rgb),
     File(Join(P_docs, N_dist), <<"f">> \o E_webp, C_rgb),
     File(project_root, <<"n", ".", "t", "x", "t">>, C_text),
     File(project_root, E_png, C_rgb),
     File(project_root, N_git, C_rgb),
     File(P_nm, <<"g">> \o E_bmp, C_l),
     File(P_images, <<"a">> \o E_jpg, C_jpeg),
     File(P_docs, <<"x", ".", "y">> \o E_tif, C_cmyk),
     File(project_root, <<"l">> \o E_svg, C_svg),
     File(P_docs, <<"h">> \o E_tiff, C_i16),
     File(P_images, <<"k">> \o E_bmp, C_la) >>

Trees == {S \in SUBSET (1..Len(Universe)) : Cardinality(S) <= MaxFiles}

TreeFiles(S) ==
  [p \in {Universe[i].path : i \in S} |->
     Universe[CHOOSE i \in S : Universe[i].path = p].content]


\* the directories named as input_dir and as output_dir on the command line
InputArgs == {project_root, P_docs, P_nm}

\* sys.argv[1:]
ArgChoices ==
  {<<>>} \cup {<<i>> : i \in InputArgs}
         \cup {<<P_docs, Join(P_docs, N_out)>>, <<project_root, <<N_ext, N_out>>>>}

----------------------------------------------------------------------------
(* find_images *)

DefaultExcludeDirs == {N_node_modules, N_dist, N_git, N_pycache, N_next}

image_extensions ==
  {E_png, E_jpg, E_jpeg, E_gif, E_webp, E_bmp, E_tiff, E_tif, E_svg}

\* lines 56-58 with the suffix compared as written in the file name
MutIsCandidate_NoLower(file_path) ==
  /\ Suffix(Name(file_path)) \in image_extensions
  /\ Suffix(Name(file_path)) \notin {E_jpg, E_jpeg}

\* lines 56-58 without the test of line 58
MutIsCandidate_KeepJpeg(file_path) ==
  Lower(Suffix(Name(file_path))) \in image_extensions

\* lines 56-58: the file is appended to images
IsCandidate(file_path) ==
  /\ Lower(Suffix(Name(file_path))) \in image_extensions
  /\ Lower(Suffix(Name(file_path))) \notin {E_jpg, E_jpeg}

\* line 52 rebinding dirs instead of assigning to dirs[:]: os.walk descends all
MutPruneDirs(ds, exclude_dirs) == ds

\* line 52: dirs[:] = [d for d in dirs if d not in exclude_dirs]
PruneDirs(ds, exclude_dirs) == SelectSeq(ds, LAMBDA d : d \notin exclude_dirs)

\* the entries os.walk lists for a directory
SubDirs(top) == {Name(d) : d \in {e \in dirs : Len(e) > 1 /\ Parent(e) = top}}
FilesIn(top) == {Name(f) : f \in {e \in DOMAIN files : Parent(e) = top}}

----------------------------------------------------------------------------
(* convert_to_jpeg *)

\* Image.open succeeds on content the library identifies as an image
CanOpen(c) == c.kind \in {"image", "jpeg"}

\* lines 30-31 with input_path.name in place of input_path.stem
MutOutputPath(input_path, out_dir) == Join(out_dir, Name(input_path) \o E_jpg)

\* lines 30-31
OutputPath(input_path, out_dir) == Join(out_dir, Stem(Name(input_path)) \o E_jpg)

\* lines 16-34 with Image.open outside the try: a file that cannot be opened
\* is not reported as a failure
MutFailure(input_path, out_dir, saveOK) ==
  IF CanOpen(files[input_path]) /\ NormalizeFails(files[input_path].img) THEN "normalize"
  ELSE IF ~saveOK \/ Join(out_dir, Stem(Name(input_path)) \o E_jpg) \in dirs THEN "save"
  ELSE ""

\* the step of lines 16-34 that raises for this file, "" when none does;
\* saveOK is whether the filesystem lets the output file be written
Failure(input_path, out_dir, saveOK) ==
  IF ~CanOpen(files[input_path]) THEN "open"
  ELSE IF NormalizeFails(files[input_path].img) THEN "normalize"
  ELSE IF ~saveOK \/ OutputPath(input_path, out_dir) \in dirs THEN "save"
  ELSE ""

\* line 34: the file img.save writes
Saved(input_path, quality) ==
  [kind |-> "jpeg", img |-> Normalize(files[input_path].img),
   quality |-> quality, src |-> input_path]

\* lines 12-40: the value returned
convert_to_jpeg(input_path, out_dir, saveOK) ==
  IF Failure(input_path, out_dir, saveOK) = ""
  THEN OutputPath(input_path, out_dir)
  ELSE None

----------------------------------------------------------------------------
(* main *)

\* PurePath.relative_to raises ValueError unless base is a prefix of p
RelativeToRaises(p, base) == ~IsPrefix(base, p)
relative_to(p, base) == SubSeq(p, Len(base) + 1, Len(p))

\* lines 66-74 with the default output directory following input_dir
MutResolveOutput(args) ==
  IF Len(args) > 1 THEN args[2]
  ELSE Join(IF Len(args) > 0 THEN args[1] ELSE project_root, N_images)

\* lines 66-74
ResolveInput(args) == IF Len(args) > 0 THEN args[1] ELSE project_root
ResolveOutput(args) == IF Len(args) > 1 THEN args[2] ELSE Join(project_root, N_images)

\* the root the markdown paths are made relative to (line 105)
MarkdownRoot == project_root

NoPrev == [known |-> FALSE, list |-> <<>>]

Init ==
  /\ argv \in ArgChoices
  /\ pilInstalled \in BOOLEAN
  /\ \E S \in Trees :
       /\ files = TreeFiles(S)
       /\ dirs = Skeleton \cup UNION {Ancestors(Parent(Universe[i].path)) : i \in S}
  /\ pc = "import"
  /\ input_dir = None
  /\ output_dir = None
  /\ stack = <<>>
  /\ visited = <<>>
  /\ considered = {}
  /\ images = <<>>
  /\ idx = 1
  /\ returned = <<>>
  /\ converted = <<>>
  /\ out = <<>>
  /\ exitCode = -1
  /\ crash = ""
  /\ run = 1
  /\ prevImages = NoPrev
  /\ nimg = NoImage
  /\ nout = NoImage

\* an exception leaves the program unhandled: traceback, exit status 1
Unhandled(exc) ==
  /\ crash' = exc
  /\ exitCode' = 1
  /\ pc' = "exited"

\* lines 7-10: the imports run at module level, before the try of line 109
\* (the handler of lines 114-116 guards main(), which imports nothing, so no
\* step of the program reaches it)
Import ==
  /\ pc = "import"
  /\ IF pilInstalled
     THEN /\ pc' = "main"
          /\ UNCHANGED <<crash, exitCode>>
     ELSE Unhandled("ImportError")
  /\ UNCHANGED <<argv, pilInstalled, dirs, files, input_dir, output_dir, stack,
                 visited, considered, images, idx, returned, converted, out,
                 run, prevImages, nimg, nout>>

\* lines 66-83: the paths, mkdir(parents=True, exist_ok=True), the two
\* header lines, and the call of find_images; mkdir may raise OSError
MainStart ==
  /\ pc = "main"
  /\ input_dir' = ResolveInput(argv)
  /\ output_dir' = ResolveOutput(argv)
  /\ \E mkdirOK \in BOOLEAN :
       IF mkdirOK
       THEN /\ dirs' = dirs \cup Ancestors(output_dir')
            /\ out' = out \o <<<<"searching", input_dir'>>, <<"output_dir", output_dir'>>>>
            /\ stack' = <<input_dir'>>
            /\ pc' = "walk"
            /\ UNCHANGED <<crash, exitCode>>
       ELSE /\ Unhandled("OSError")
            /\ UNCHANGED <<dirs, out, stack>>
  /\ UNCHANGED <<argv, pilInstalled, files, visited, considered, images, idx,
                 returned, converted, run, prevImages, nimg, nout>>

\* lines 50-59: one iteration of the loop over os.walk; the order in which a
\* directory's entries are listed is the operating system's
WalkStep ==
  /\ pc = "walk"
  /\ stack # <<>>
  /\ LET root == Head(stack)
     IN \E ds \in Perms(SubDirs(root)), fs \in Perms(FilesIn(root)) :
          LET kept == PruneDirs(ds, DefaultExcludeDirs)
              paths == [i \in 1..Len(fs) |-> Join(root, fs[i])]
          IN /\ stack' = [i \in 1..Len(kept) |-> Join(root, kept[i])] \o Tail(stack)
             /\ visited' = Append(visited, root)
             /\ considered' = considered \cup Range(paths)
             /\ images' = images \o SelectSeq(paths, IsCandidate)
  /\ UNCHANGED <<argv, pilInstalled, dirs, files, pc, input_dir, output_dir, idx,
                 returned, converted, out, exitCode, crash, run, prevImages,
                 nimg, nout>>

\* lines 83-89: find_images returns; main leaves when the list is empty
WalkDone ==
  /\ pc = "walk"
  /\ stack = <<>>
  /\ IF images = <<>>
     THEN /\ out' = Append(out, <<"no_images">>)
          /\ pc' = "exited"
          /\ exitCode' = 0
     ELSE /\ out' = Append(out, <<"found", Len(images)>>)
          /\ pc' = "loop"
          /\ UNCHANGED exitCode
  /\ UNCHANGED <<argv, pilInstalled, dirs, files, input_dir, output_dir, stack,
                 visited, considered, images, idx, returned, converted, crash,
                 run, prevImages, nimg, nout>>

\* lines 95-96: main's list after one attempt, as a bug would keep it
MutConvertedAfter(list, img_path, output_path) ==
  Append(list, <<img_path, output_path>>)

\* lines 95-96: main's list after one attempt
ConvertedAfter(list, img_path, output_path) ==
  IF output_path # None THEN Append(list, <<img_path, output_path>>) ELSE list

\* lines 93-96 with convert_to_jpeg (lines 12-40): one candidate
ConvertStep ==
  /\ pc = "loop"
  /\ idx <= Len(images)
  /\ \E saveOK \in BOOLEAN :
       LET img_path == images[idx]
           output_path == convert_to_jpeg(img_path, output_dir, saveOK)
       IN /\ returned' = Append(returned, output_path)
          /\ converted' = ConvertedAfter(converted, img_path, output_path)
          /\ IF output_path # None
             THEN /\ files' = [f \in DOMAIN files \cup {output_path} |->
                                 IF f = output_path
                                 THEN Saved(img_path, DefaultQuality)
                                 ELSE files[f]]
                  /\ out' = Append(out, <<"converted", Name(img_path), Name(output_path)>>)
             ELSE /\ out' = Append(out, <<"error", Name(img_path),
                                          Failure(img_path, output_dir, saveOK)>>)
                  /\ UNCHANGED files
  /\ idx' = idx + 1
  /\ UNCHANGED <<argv, pilInstalled, dirs, pc, input_dir, output_dir, stack,
                 visited, considered, images, exitCode, crash, run, prevImages,
                 nimg, nout>>

\* lines 98-99: the summary
Report ==
  /\ pc = "loop"
  /\ idx > Len(images)
  /\ out' = out \o <<<<"complete", Len(converted)>>, <<"saved_to", output_dir>>>>
  /\ pc' = "markdown"
  /\ UNCHANGED <<argv, pilInstalled, dirs, files, input_dir, output_dir, stack,
                 visited, considered, images, idx, returned, converted,
                 exitCode, crash, run, prevImages, nimg, nout>>

\* the lines printed by lines 104-106 when relative_to does not raise
MarkdownLines ==
  [k \in 1..Len(converted) |->
     <<"md", Stem(Name(converted[k][2])), relative_to(converted[k][2], MarkdownRoot)>>]

\* lines 102-106: the markdown references, then main returns
Markdown ==
  /\ pc = "markdown"
  /\ IF converted = <<>>
     THEN /\ pc' = "exited"
          /\ exitCode' = 0
          /\ UNCHANGED <<out, crash>>
     ELSE IF RelativeToRaises(converted[1][2], MarkdownRoot)
     THEN /\ out' = Append(out, <<"md_header">>)
          /\ Unhandled("ValueError")
     ELSE /\ out' = Append(out, <<"md_header">>) \o MarkdownLines
          /\ pc' = "exited"
          /\ exitCode' = 0
          /\ UNCHANGED crash
  /\ UNCHANGED <<argv, pilInstalled, dirs, files, input_dir, output_dir, stack,
                 visited, considered, images, idx, returned, converted, run,
                 prevImages, nimg, nout>>

\* lines 111-113: KeyboardInterrupt raised anywhere inside main()
Interrupt ==
  /\ pc \in {"main", "walk", "loop", "markdown"}
  /\ out' = Append(out, <<"cancelled">>)
  /\ exitCode' = 1
  /\ pc' = "exited"
  /\ UNCHANGED <<argv, pilInstalled, dirs, files, input_dir, output_dir, stack,
                 visited, considered, images, idx, returned, converted, crash,
                 run, prevImages, nimg, nout>>

\* the program is started again with the same arguments on the tree as the
\* previous run left it
Rerun ==
  /\ pc = "exited"
  /\ run < MaxRuns
  /\ Len(returned) = Len(images)
  /\ images # <<>>
  /\ run' = run + 1
  /\ prevImages' = [known |-> TRUE, list |-> images]
  /\ pc' = "import"
  /\ input_dir' = None
  /\ output_dir' = None
  /\ stack' = <<>>
  /\ visited' = <<>>
  /\ considered' = {}
  /\ images' = <<>>
  /\ idx' = 1
  /\ returned' = <<>>
  /\ converted' = <<>>
  /\ out' = <<>>
  /\ exitCode' = -1
  /\ crash' = ""
  /\ UNCHANGED <<argv, pilInstalled, dirs, files, nimg, nout>>

Next ==
  \/ Import
  \/ MainStart
  \/ WalkStep
  \/ WalkDone
  \/ ConvertStep
  \/ Report
  \/ Markdown
  \/ Interrupt
  \/ Rerun

Spec == Init /\ [][Next]_vars

----------------------------------------------------------------------------
(* Colour normalisation alone: lines 19-27 applied to one opened image *)

Colours == {0, 200}
Greys == {0, 100, 255}
Alphas == {0, 128, 255}
Inks == {0, 255}

TestPalette == <<<<200, 0, 0>>, <<0, 0, 200>>>>

PixelSeqs(P) == UNION {[1..n -> P] : n \in 1..MaxPixels}

TestImages ==
  {Img("RGB", px) : px \in PixelSeqs([1..3 -> Colours])}
  \cup {Img("RGBA", px) : px \in PixelSeqs({<<r, g, 0, a>> : r, g \in Colours, a \in Alphas})}
  \cup {Img("LA", px) : px \in PixelSeqs(Greys \X Alphas)}
  \cup {Img("L", px) : px \in PixelSeqs({<<l>> : l \in Greys})}
  \cup {Img("CMYK", px) : px \in PixelSeqs({<<c, 0, y, k>> : c, y, k \in Inks})}
  \cup {Img("I;16B", px) : px \in PixelSeqs({<<1000>>})}
  \cup {[mode |-> "P", px |-> px, pal |-> TestPalette, trans |-> t] :
          px \in PixelSeqs({<<0>>, <<1>>}), t \in [1..2 -> Alphas]}

InitNormalize ==
  /\ nimg \in TestImages
  /\ nout = NoImage
  /\ pc = "opened"
  /\ argv = <<>>
  /\ pilInstalled = TRUE
  /\ dirs = {}
  /\ files = <<>>
  /\ input_dir = None
  /\ output_dir = None
  /\ stack = <<>>
  /\ visited = <<>>
  /\ considered = {}
  /\ images = <<>>
  /\ idx = 1
  /\ returned = <<>>
  /\ converted = <<>>
  /\ out = <<>>
  /\ exitCode = -1
  /\ crash = ""
  /\ run = 1
  /\ prevImages = NoPrev

\* lines 19-27 on the opened image
NormalizeStep ==
  /\ pc = "opened"
  /\ IF NormalizeFails(nimg)
     THEN /\ pc' = "raised"
          /\ UNCHANGED nout
     ELSE /\ pc' = "normalized"
          /\ nout' = Normalize(nimg)
  /\ UNCHANGED <<argv, pilInstalled, dirs, files, input_dir, output_dir, stack,
                 visited, considered, images, idx, returned, converted, out,
                 exitCode, crash, run, prevImages, nimg>>

NextNormalize == NormalizeStep

SpecNormalize == InitNormalize /\ [][NextNormalize]_vars

----------------------------------------------------------------------------
(* Properties *)

\* find_images has returned to main in this run
DiscoveryReturned == pc \in {"loop", "markdown"} \/ (pc = "exited" /\ visited # <<>> /\ stack = <<>>)

\* the run was interrupted by the user
Cancelled == \E i \in 1..Len(out) : out[i][1] = "cancelled"

\* the recognized image extensions that do not denote JPEG
RecognizedNotJpeg == {E_png, E_gif, E_webp, E_bmp, E_tiff, E_tif, E_svg}

\* the directory names strictly between root and the last component of p
Between(root, p) == {p[k] : k \in (Len(root) + 1)..(Len(p) - 1)}

\* the files find_images(root) is to return
ExpectedImages(root) ==
  {p \in DOMAIN files :
     /\ IsPrefix(root, p)
     /\ Between(root, p) \cap DefaultExcludeDirs = {}
     /\ Lower(Suffix(Name(p))) \in RecognizedNotJpeg}

\* C1: when find_images returns, its list holds, once each, exactly the files
\* under the root whose lower-cased extension is a recognized one other than
\* .jpg/.jpeg and whose path from the root passes through no excluded
\* directory name
C1_FindImagesExact ==
  (pc = "walk" /\ stack = <<>>) =>
     /\ Range(images) = ExpectedImages(input_dir)
     /\ Len(images) = Cardinality(Range(images))
     /\ \A p \in Range(images) : Lower(Suffix(Name(p))) \notin {E_jpg, E_jpeg}

\* discovery returned a candidate with an upper-case extension while the
\* tree also holds a file it left out
C1_Witness ==
  /\ pc = "walk" /\ stack = <<>>
  /\ \E p \in Range(images) : Suffix(Name(p)) # Lower(Suffix(Name(p)))
  /\ \E f \in DOMAIN files : IsPrefix(input_dir, f) /\ f \notin Range(images)

\* C9: at every step of the walk, no directory below the root that has an
\* excluded name on its path from the root is yielded or queued, no file
\* below such a directory reaches the suffix test, and every file of a
\* yielded directory reaches it whatever its own name is
C9_PrunedBeforeDescent ==
  /\ \A d \in Range(visited) \cup Range(stack) :
       {d[k] : k \in (Len(input_dir) + 1)..Len(d)} \cap DefaultExcludeDirs = {}
  /\ \A f \in considered : Between(input_dir, f) \cap DefaultExcludeDirs = {}
  /\ pc = "walk" =>
       \A i \in 1..Len(visited) : \A f \in DOMAIN files :
          Parent(f) = visited[i] =>
            f \in considered /\ (IsCandidate(f) => f \in Range(images))

\* the walk ended on a tree holding a file below an excluded directory, and
\* a file that itself bears an excluded name was examined
C9_Witness ==
  /\ pc = "walk" /\ stack = <<>> /\ visited # <<>>
  /\ \E f \in DOMAIN files :
       /\ IsPrefix(input_dir, f)
       /\ Between(input_dir, f) \cap DefaultExcludeDirs # {}
       /\ f \notin considered
  /\ \E f \in considered : Name(f) \in DefaultExcludeDirs

\* the last attempt of this run that returned the path q
LastWriter(q) == Max({k \in 1..Len(returned) : returned[k] = q})

\* C7: a successful conversion returns and writes output_dir/<stem>.jpg,
\* flat in output_dir, <stem> being the input name without its final
\* extension; of the conversions with the same such path the last one's
\* output is the file left there
C7_OutputPathFlatStem ==
  \A k \in 1..Len(returned) :
     returned[k] # None =>
       LET n == Name(images[k])
           q == returned[k]
       IN /\ Parent(q) = output_dir
          /\ Name(q) = SubSeq(n, 1, RFindDot(n) - 1) \o E_jpg
          /\ Suffix(Name(q)) = E_jpg
          /\ Stem(Name(q)) = Stem(n)
          /\ q \in DOMAIN files
          /\ files[q].src = images[LastWriter(q)]
          /\ files[q].kind = "jpeg"

\* two candidates of the same stem in different directories were both
\* converted, and the file left is the later one's
C7_Witness ==
  \E j, k \in 1..Len(returned) :
     /\ j < k
     /\ returned[j] # None
     /\ returned[j] = returned[k]
     /\ Parent(images[j]) # Parent(images[k])
     /\ files[returned[k]].src = images[k]

\* files written by convert_to_jpeg, in this run or an earlier one
Written == {f \in DOMAIN files : files[f].src # None}

\* C10: a written path ends in .jpg, is no candidate of this run and is not
\* selected by find_images; a run on the tree a previous run left discovers
\* the same candidates, and an output file already present does not make a
\* conversion fail
C10_OutputsNeverCandidates ==
  /\ \A f \in Written :
       /\ Suffix(Name(f)) = E_jpg
       /\ ~IsCandidate(f)
       /\ f \notin Range(images)
       /\ files[f].src # f
  /\ (prevImages.known /\ pc = "walk" /\ stack = <<>> /\ visited # <<>>) =>
       Range(images) = Range(prevImages.list)
  /\ pc = "loop" =>
       \A k \in 1..Len(images) :
          (/\ OutputPath(images[k], output_dir) \in DOMAIN files
           /\ CanOpen(files[images[k]])
           /\ ~NormalizeFails(files[images[k]].img))
          => convert_to_jpeg(images[k], output_dir, TRUE) = OutputPath(images[k], output_dir)

\* a second run finished its discovery having examined, and not selected, a
\* file the first run wrote inside the scanned tree
C10_Witness ==
  /\ run > 1 /\ prevImages.known
  /\ pc = "loop"
  /\ \E f \in Written \cap considered : f \notin Range(images)
  /\ \E k \in 1..Len(returned) : returned[k] \in Written

\* the line printed for the k-th attempt of this run: two header lines and
\* the "Found" line precede the attempts
AttemptLine(k) == out[3 + k]

C2_Attempts ==
  /\ \A k \in 1..Len(returned) :
       LET c == files[images[k]]
       IN /\ returned[k] = None =>
               /\ AttemptLine(k)[1] = "error"
               /\ AttemptLine(k)[2] = Name(images[k])
               /\ \A j \in 1..Len(converted) : converted[j][1] # images[k]
               /\ AttemptLine(k)[3] = "open" <=> ~CanOpen(c)
               /\ AttemptLine(k)[3] = "normalize" <=> (CanOpen(c) /\ NormalizeFails(c.img))
          /\ returned[k] # None =>
               /\ CanOpen(c) /\ ~NormalizeFails(c.img)
               /\ AttemptLine(k)[1] = "converted"
               /\ \E j \in 1..Len(converted) : converted[j] = <<images[k], returned[k]>>
               /\ files[returned[k]].img = Normalize(files[images[LastWriter(returned[k])]].img)
  /\ (DiscoveryReturned /\ ~Cancelled /\ pc # "loop") => Len(returned) = Len(images)

\* a step in which convert_to_jpeg returned None
C2_FailedStep ==
  /\ pc = "loop" /\ pc' = "loop"
  /\ Len(returned') = Len(returned) + 1
  /\ returned'[Len(returned')] = None

C2_Steps ==
  /\ C2_FailedStep => (files' = files /\ dirs' = dirs /\ converted' = converted)
  /\ (pc = "loop" /\ idx <= Len(images) /\ pc' # "exited") =>
        (pc' = "loop" /\ idx' = idx + 1 /\ Len(returned') = idx)

Printed(kind) == {out[i][2] : i \in {j \in 1..Len(out) : out[j][1] = kind}}

Succeeded == {k \in 1..Len(returned) : returned[k] # None}

\* C3 as stated: every uninterrupted run whose discovery returned, the empty
\* list included, prints the final summary with the number converted
C3_Original ==
  (pc = "exited" /\ DiscoveryReturned /\ ~Cancelled) =>
     Printed("complete") = {Cardinality(Succeeded)}

\* C3 amended: with at least one candidate the summary is printed once, after
\* every candidate was attempted, counting the conversions that returned a
\* path; with none, main prints the no-images line and no summary
C3_SummaryUnlessEmpty ==
  ((pc = "markdown" \/ pc = "exited") /\ DiscoveryReturned /\ ~Cancelled) =>
     IF images # <<>>
     THEN /\ Len(returned) = Len(images)
          /\ Printed("found") = {Len(images)}
          /\ Printed("complete") = {Cardinality(Succeeded)}
          /\ Len(converted) = Cardinality(Succeeded)
          /\ Cardinality({i \in 1..Len(out) : out[i][1] = "complete"}) = 1
     ELSE /\ \E i \in 1..Len(out) : out[i][1] = "no_images"
          /\ \A i \in 1..Len(out) : out[i][1] # "complete"
          /\ exitCode = 0

\* a run in which every conversion failed printed a summary of 0 converted
C3_Witness ==
  /\ pc = "exited" /\ ~Cancelled
  /\ Len(images) > 1
  /\ Len(returned) = Len(images)
  /\ Succeeded = {}
  /\ Printed("complete") = {0}

\* the markdown lines printed, in order
MdLines == SelectSeq(out, LAMBDA l : l[1] = "md")

\* C4 as stated: whatever the arguments, the run ends normally having
\* printed one markdown line per successful conversion, in order, with the
\* path relative to the resolved input directory
C4_Original ==
  (pc = "exited" /\ DiscoveryReturned /\ ~Cancelled) =>
     /\ crash = ""
     /\ exitCode = 0
     /\ MdLines = [k \in 1..Len(converted) |->
                     <<"md", Stem(Name(converted[k][2])),
                       relative_to(converted[k][2], input_dir)>>]

\* C5 as stated: with input_dir given and output_dir omitted the output
\* directory is <input_dir>/images
C5_Original ==
  pc = "loop" =>
     /\ input_dir = (IF Len(argv) > 0 THEN argv[1] ELSE project_root)
     /\ output_dir = (IF Len(argv) > 1 THEN argv[2] ELSE Join(input_dir, N_images))
     /\ Ancestors(output_dir) \subseteq dirs

\* C5 amended: with output_dir omitted the output directory is
\* <project_root>/images whatever input_dir is; a given argument is used as
\* given; the output directory and its parents exist while candidates are
\* converted
C5_OutputDefaultsToProjectRoot ==
  pc = "loop" =>
     /\ input_dir = (IF Len(argv) > 0 THEN argv[1] ELSE project_root)
     /\ output_dir = (IF Len(argv) > 1 THEN argv[2] ELSE Join(project_root, N_images))
     /\ Ancestors(output_dir) \subseteq dirs
     /\ \A k \in 1..Len(returned) : returned[k] # None => Parent(returned[k]) = output_dir

\* with only input_dir given, a file was converted into <project_root>/images
C5_Witness ==
  /\ Len(argv) = 1
  /\ argv[1] # project_root
  /\ pc = "loop"
  /\ \E k \in 1..Len(returned) :
        returned[k] # None /\ Parent(returned[k]) = Join(project_root, N_images)

\* C6 as stated: without the imaging library the program prints the install
\* message and exits 1 without an unhandled exception; an interrupted run
\* exits 1; any other run exits 0
C6_Original ==
  pc = "exited" =>
     /\ ~pilInstalled =>
          /\ crash = ""
          /\ exitCode = 1
          /\ \E i \in 1..Len(out) : out[i][1] = "install_pillow"
     /\ Cancelled => exitCode = 1
     /\ (pilInstalled /\ ~Cancelled) => exitCode = 0

\* alpha and colour of the i-th pixel of an image with transparency
SrcAlpha(img, i) ==
  CASE img.mode = "RGBA" -> img.px[i][4]
    [] img.mode = "LA" -> img.px[i][2]
    [] img.mode = "P" -> img.trans[img.px[i][1] + 1]
SrcColour(img, i) ==
  CASE img.mode = "RGBA" -> <<img.px[i][1], img.px[i][2], img.px[i][3]>>
    [] img.mode = "LA" -> <<img.px[i][1], img.px[i][1], img.px[i][1]>>
    [] img.mode = "P" -> img.pal[img.px[i][1] + 1]

\* C8: the image handed to save is RGB with three channels per pixel; P, LA
\* and RGBA are composited on white with the alpha as mask (transparent
\* pixels white, opaque pixels their colour); other non-RGB modes are
\* converted directly; RGB is passed unchanged
C8_NormalizedRGB ==
  /\ pc = "raised" => nimg.mode \notin {"RGB", "RGBA", "LA", "P", "L", "CMYK"}
  /\ pc = "normalized" =>
       /\ nout.mode = "RGB"
       /\ Len(nout.px) = Len(nimg.px)
       /\ \A i \in 1..Len(nout.px) :
            Len(nout.px[i]) = 3 /\ \A c \in 1..3 : nout.px[i][c] \in 0..255
       /\ nimg.mode = "RGB" => nout = nimg
       /\ nimg.mode \in {"RGBA", "LA", "P"} =>
            \A i \in 1..Len(nimg.px) :
               /\ SrcAlpha(nimg, i) = 0 => nout.px[i] = <<255, 255, 255>>
               /\ SrcAlpha(nimg, i) = 255 => nout.px[i] = SrcColour(nimg, i)
               /\ \A c \in 1..3 : SrcColour(nimg, i)[c] <= nout.px[i][c]
       /\ nimg.mode = "L" =>
            \A i \in 1..Len(nimg.px) :
               nout.px[i] = <<nimg.px[i][1], nimg.px[i][1], nimg.px[i][1]>>
       /\ nimg.mode = "CMYK" =>
            \A i \in 1..Len(nimg.px) :
               /\ nimg.px[i][4] = 255 => nout.px[i] = <<0, 0, 0>>
               /\ (nimg.px[i][4] = 0 /\ nimg.px[i][1] = 0) => nout.px[i][1] = 255

\* a palette image with a transparent coloured pixel and a half-transparent
\* one was normalised; the transparent pixel came out white
C8_Witness ==
  /\ pc = "normalized"
  /\ nimg.mode = "P"
  /\ \E i, j \in 1..Len(nimg.px) :
       /\ SrcAlpha(nimg, i) = 0
       /\ SrcColour(nimg, i) # <<255, 255, 255>>
       /\ nout.px[i] = <<255, 255, 255>>
       /\ SrcAlpha(nimg, j) = 128
       /\ nout.px[j] # SrcColour(nimg, j)

====
